---- MODULE Spec2Model ----
(***************************************************************************)
(* tempsystem: one process run of main().  The model follows the session  *)
(* driver Context::perform_all_enter await point by await point, raced by  *)
(* tokio::select! against the CancellationToken set by the Ctrl-C task.    *)
(* Every engine call has two steps: XCall (the synchronous code before the *)
(* await and the request being issued) and XReturn (the response and the   *)
(* synchronous code after it).                                             *)
(***************************************************************************)
EXTENDS Integers, Sequences, FiniteSets, TLC

\* ---------------------------------------------------------------- bounds
MaxPkgs == 2        \* words in --extra-packages / --extra-aur-packages
MaxChunks == 1      \* output chunks an exec stream yields before it stops
MaxPullEvents == 2  \* Ok items the pull stream yields

\* ------------------------------------------------------------- constants
U8 == 256           \* (code as u8): u8 has 2^8 values
BaseSteps == 5      \* pull + create + start + execute + delete

\* exit codes inspect_exec may report (i64), around 0 and around the u8 edge
ExitCodes == {0, 1, U8 - 1, U8, U8 + 1}

CID == "c1"         \* the id the engine gives the container it creates
NoId == ""          \* String::default(), container_id before create

LayerIds == {"a", "b"}  \* layer ids a pull stream may report
NoLen == -1         \* ProgressBar::no_length(): length() is None

VARIABLES
    args,           \* parsed Args (immutable)
    token,          \* CancellationToken: TRUE once cancelled
    ctx,            \* Context {docker: Option<Docker>, container_id}
    pc,             \* main(): "connect", "select", "returned", "exited"
    fut,            \* local state of the perform_all_enter future
    ret,            \* value perform_all_enter returned
    exitCode,       \* process exit code (meaningful once pc = "exited")
    spinner,        \* message and prefix index shown by the spinner
    rawMode,        \* local stdout is in raw mode
    written,        \* output chunks written to local stdout
    stdinLoop,      \* stdin-forwarding task: "none", "running", "stopped"
    calls,          \* engine calls issued, in order
    errors,         \* what print_error! printed, in order
    createReq,      \* the create-container request at the engine
    engineCreated,  \* containers the engine created
    layers,         \* layer ids the pull stream of this run reports
    m,              \* every ProgressBar pull_image gave to m.add, in order
    bars,           \* pull_image's HashMap: layer id -> place in m, 0: no entry
    stdinLast,      \* what the last turn of the stdin-forwarding loop met
    h               \* history of the run, read by the properties only

vars == <<args, token, ctx, pc, fut, ret, exitCode, spinner, rawMode, written,
          stdinLoop, calls, errors, createReq, engineCreated, layers, m, bars,
          stdinLast, h>>

\* ------------------------------------------------------------------ Args
ArgsSet ==
    [chaotic_aur : BOOLEAN, landware : BOOLEAN,
     update_system : BOOLEAN, update_pkgfile : BOOLEAN,
     extra_packages : 0..MaxPkgs,        \* word count; 0: None or no word
     extra_aur_packages : 0..MaxPkgs,
     sync_zsh_history : {"Off", "Mount", "Copy"}]

BoolToInt(b) == IF b THEN 1 ELSE 0

\* mutant of Total: the words of the package lists are not counted
TotalWithoutPackages(a) ==
    BaseSteps
    + BoolToInt(a.update_system) + BoolToInt(a.update_pkgfile)
    + BoolToInt(a.landware) + BoolToInt(a.chaotic_aur)

\* docker.rs 245-259
Total(a) ==
    BaseSteps + a.extra_packages + a.extra_aur_packages
    + BoolToInt(a.update_system) + BoolToInt(a.update_pkgfile)
    + BoolToInt(a.landware) + BoolToInt(a.chaotic_aur)

\* ------------------------------------------------------ order of the steps
StageOrder ==
    <<"pull", "create", "start", "chaotic", "landware", "update", "pkgfile",
      "pkgs", "aur", "primary", "delete">>

ProvStages == {"chaotic", "landware", "update", "pkgfile", "pkgs", "aur"}
PkgStages == {"pkgs", "aur"}
ExecStages == ProvStages \cup {"primary"}

\* the place of a step in that order
RankTable ==
    [s \in {StageOrder[i] : i \in 1..Len(StageOrder)} |->
        CHOOSE i \in 1..Len(StageOrder) : StageOrder[i] = s]
Rank(s) == RankTable[s]

\* the `if args.x` / `if let Some(pkgs)` guards of perform_all_enter
StageEnabled(s) ==
    CASE s = "chaotic"  -> args.chaotic_aur
      [] s = "landware" -> args.landware
      [] s = "update"   -> args.update_system
      [] s = "pkgfile"  -> args.update_pkgfile
      [] s = "pkgs"     -> args.extra_packages > 0
      [] s = "aur"      -> args.extra_aur_packages > 0
      [] OTHER          -> TRUE

\* the next step perform_all_enter reaches after step s succeeded
NextStage(s) ==
    LET later == {i \in (Rank(s) + 1)..Len(StageOrder) : StageEnabled(StageOrder[i])}
        first == CHOOSE i \in later : \A j \in later : i <= j
    IN  StageOrder[first]

\* the first await of a step
FirstSub(s) ==
    CASE s = "pull"    -> "pull"
      [] s = "create"  -> "create_container"
      [] s = "start"   -> "start_container"
      [] s = "primary" -> IF args.sync_zsh_history = "Copy" THEN "copy" ELSE "create_exec"
      [] s = "delete"  -> "sleep"
      [] OTHER         -> "create_exec"

PkgCount(s) == IF s = "pkgs" THEN args.extra_packages ELSE args.extra_aur_packages

\* ------------------------------------------------------------- helpers
\* pkg: the place of the package an Error names (PackageDNE, PackageInstall)
Ok(code) == [tag |-> "ok", kind |-> "", code |-> code, pkg |-> 0]
Err(kind, code) == [tag |-> "err", kind |-> kind, code |-> code, pkg |-> 0]
ErrPkg(kind, code, i) == [tag |-> "err", kind |-> kind, code |-> code, pkg |-> i]
NoRet == [tag |-> "none", kind |-> "", code |-> 0, pkg |-> 0]

\* mutant of AsU8: the cast saturates instead of wrapping
AsU8Saturating(code) == IF code < 0 THEN 0 ELSE IF code > U8 - 1 THEN U8 - 1 ELSE code

\* (code as u8) in main: the low eight bits of the i64
AsU8(code) == code % U8

\* inspect.exit_code.unwrap_or(0)
UnwrapOr0(has, code) == IF has THEN code ELSE 0

\* mutant of StepFails: only the status 1 aborts the step
StepFailsOnOne(status) == status = 1

\* `if status != 0 { return Err(..) }` after a provisioning exec
StepFails(status) == status # 0

\* mutant of ProvError: a failed search is reported like a failed install
ProvErrorInstallKind(stage, phase, i, status) ==
    CASE stage = "chaotic"  -> Err("ChaoticAUR", status)
      [] stage = "landware" -> Err("Landware", status)
      [] stage = "update"   -> Err("SystemUpdate", status)
      [] stage = "pkgfile"  -> Err("Pkgfile", status)
      [] OTHER -> ErrPkg("PackageInstall", status, i)

\* the Error a provisioning step returns for a non-zero status; i is the
\* place of the package among the words of the list
ProvError(stage, phase, i, status) ==
    CASE stage = "chaotic"  -> Err("ChaoticAUR", status)
      [] stage = "landware" -> Err("Landware", status)
      [] stage = "update"   -> Err("SystemUpdate", status)
      [] stage = "pkgfile"  -> Err("Pkgfile", status)
      [] OTHER -> IF phase = "search" THEN ErrPkg("PackageDNE", 0, i)
                                      ELSE ErrPkg("PackageInstall", status, i)

\* an engine call as the engine sees it
Call(op, by) ==
    [op |-> op, by |-> by, idx |-> IF by \in PkgStages THEN fut.i ELSE 0,
     phase |-> IF by \in PkgStages THEN fut.phase ELSE "",
     target |-> ctx.container_id]

\* results remove_container can give for a target
RemoveResults(target) == IF target \in engineCreated THEN BOOLEAN ELSE {FALSE}

\* the session driver is being polled inside select!
Running(stage, sub, inflight) ==
    /\ pc = "select"
    /\ fut.stage = stage
    /\ fut.sub = sub
    /\ fut.inflight = inflight

\* perform_all_enter returns e: `?` drops the locals (the raw-mode guard)
Fail(e) ==
    /\ ret' = e
    /\ pc' = "returned"
    /\ rawMode' = FALSE

\* perform_all_enter goes on
Stay == UNCHANGED <<ret, pc, rawMode>>

\* position of the driver when step `stage` begins
Goto(f, stage) ==
    [f EXCEPT !.stage = stage, !.sub = FirstSub(stage), !.inflight = FALSE,
              !.i = IF stage \in PkgStages THEN 1 ELSE 0,
              !.phase = IF stage \in PkgStages THEN "search" ELSE "",
              !.chunks = 0]

\* spinner.set_message of a step that runs an exec
Message(stage) ==
    CASE stage = "chaotic"  -> "Adding Chaotic-AUR"
      [] stage = "landware" -> "Adding landware"
      [] stage = "update"   -> "Updating system"
      [] stage = "pkgfile"  -> "Updating pkgfile database"
      [] stage = "pkgs"     -> "Installing pkg"
      [] stage = "aur"      -> "Installing pkg from AUR"
      [] OTHER              -> "Executing"

\* spinner.set_prefix index of a step that runs an exec (i + current_task)
Prefix(f) == IF f.stage \in PkgStages THEN (f.i - 1) + f.cur ELSE f.cur

\* ------------------------------------------- pull_image: layer indicators
\* status texts of a pull event, as words; the last has no leading space
PullComplete == <<"Pull", "complete">>
StatusTexts == {PullComplete, <<"Download", "complete">>, <<"Downloading">>,
                <<"complete">>}

\* Option<String> status of an event
Statuses == {[has |-> FALSE, text |-> <<>>]} \cup [has : {TRUE}, text : StatusTexts]

\* progress_detail of an event: absent, current only, current and total
ProgressDetails ==
    {[has |-> FALSE, hasCur |-> FALSE, cur |-> 0, hasTotal |-> FALSE, total |-> 0],
     [has |-> TRUE, hasCur |-> TRUE, cur |-> 50, hasTotal |-> FALSE, total |-> 0],
     [has |-> TRUE, hasCur |-> TRUE, cur |-> 50, hasTotal |-> TRUE, total |-> 100]}

\* the events a stream reporting the layer ids ls may yield
Updates(ls) ==
    {u \in [hasId : BOOLEAN, id : ls \cup {"latest", ""},
            progress_detail : ProgressDetails, status : Statuses] :
        u.hasId <=> u.id # ""}

\* mutant of Tracked: the id "latest" is aggregated like a layer id
TrackedAnyId(u) == u.hasId

\* `if let Some(id) = update.id && id != "latest"`
Tracked(u) == u.hasId /\ u.id # "latest"

\* msg.ends_with(" complete")
EndsWithComplete(text) == Len(text) > 1 /\ text[Len(text)] = "complete"

\* HashMap::new()
NoBars == [l \in LayerIds \cup {"latest"} |-> 0]

\* m.add(ProgressBar::new(len)) / m.add(ProgressBar::no_length()) for layer l
NewBar(l, len) ==
    [layer |-> l, len |-> len, pos |-> 0, msg |-> <<>>,
     state |-> "live",      \* "live", "cleared" (finish_and_clear), "dropped"
     inMulti |-> TRUE,      \* registered with m and not removed from it
     tracked |-> FALSE]     \* was put into bars

\* bars.entry(l).or_insert(m.add(..)): the argument is evaluated first, so
\* the new bar is registered with m whether or not l has an entry; if it
\* has one the new bar is dropped at once
EntryOrInsert(s, l, len) ==
    LET mm == Append(s.m, NewBar(l, len))
        n == Len(mm)
    IN  IF s.bars[l] = 0
        THEN [m |-> [mm EXCEPT ![n].tracked = TRUE], bars |-> [s.bars EXCEPT ![l] = n]]
        ELSE [m |-> [mm EXCEPT ![n].state = "dropped"], bars |-> s.bars]

\* mutant of OnStatus: "Pull complete" clears the bar but keeps the entry
OnStatusKeepsEntry(s, l, text) ==
    LET i == s.bars[l] IN
    IF text = PullComplete
    THEN [s EXCEPT !.m[i].state = "cleared", !.m[i].inMulti = FALSE]
    ELSE IF EndsWithComplete(text) /\ s.m[i].len # NoLen
    THEN [s EXCEPT !.m[i].pos = s.m[i].len]
    ELSE [s EXCEPT !.m[i].msg = text]

\* `if let Some(msg) = update.status { .. }` on the entry of layer l
OnStatus(s, l, text) ==
    LET i == s.bars[l] IN
    IF text = PullComplete
    THEN [s EXCEPT !.m[i].state = "cleared", !.m[i].inMulti = FALSE, !.bars[l] = 0]
    ELSE IF EndsWithComplete(text) /\ s.m[i].len # NoLen
    THEN [s EXCEPT !.m[i].pos = s.m[i].len]
    ELSE [s EXCEPT !.m[i].msg = text]

\* the body of `while let Some(update) = stream.next().await` for an Ok item
Aggregate(s, u) ==
    IF ~Tracked(u) THEN s
    ELSE
    LET l == u.id
        p == u.progress_detail
        s1 == IF p.has /\ p.hasCur /\ p.hasTotal
              THEN LET e == EntryOrInsert(s, l, p.total)
                   IN  [e EXCEPT !.m[e.bars[l]].pos = p.cur,
                                 !.m[e.bars[l]].len = p.total]
              ELSE s
        s2 == EntryOrInsert(s1, l, NoLen)
    IN  IF u.status.has THEN OnStatus(s2, l, u.status.text) ELSE s2

\* `for (_, pb) in bars { pb.finish_and_clear(); }`
FinishAll(mm, bb) ==
    [i \in DOMAIN mm |->
        IF \E l \in DOMAIN bb : bb[l] = i THEN [mm[i] EXCEPT !.state = "cleared"]
                                         ELSE mm[i]]

\* bars goes out of scope with its entries not finished
DropAll(mm, bb) ==
    [i \in DOMAIN mm |->
        IF \E l \in DOMAIN bb : bb[l] = i THEN [mm[i] EXCEPT !.state = "dropped"]
                                         ELSE mm[i]]

\* ------------------------------------------------------------------ Init
\* a run with no optional step
PlainArgs ==
    [chaotic_aur |-> FALSE, landware |-> FALSE, update_system |-> FALSE,
     update_pkgfile |-> FALSE, extra_packages |-> 0, extra_aur_packages |-> 0,
     sync_zsh_history |-> "Off"]

\* the state after construction, args and the stream's layer ids apart
Start ==
    /\ token = FALSE
    /\ ctx = [docker |-> FALSE, container_id |-> NoId]
    /\ pc = "connect"
    /\ fut = [stage |-> "pull", sub |-> "pull", inflight |-> FALSE, i |-> 0,
              phase |-> "", cur |-> 0, total |-> 0, chunks |-> 0, exit_code |-> 0]
    /\ ret = NoRet
    /\ exitCode = 0
    /\ spinner = [message |-> "", prefix |-> 0]
    /\ rawMode = FALSE
    /\ written = 0
    /\ stdinLoop = "none"
    /\ calls = <<>>
    /\ errors = <<>>
    /\ createReq = "none"
    /\ engineCreated = {}
    /\ m = <<>>
    /\ bars = NoBars
    /\ stdinLast = "none"
    /\ h = [cancelAt |-> "",        \* step at which the cancelled branch won
            pullRes |-> "",         \* how the pull stream ended: "ok", "err"
            startRes |-> "",        \* what start_container returned
            provFailAt |-> 0,       \* Len(calls) when a provisioning exec
                                    \* first reported a non-zero exit code
            reported |-> [seen |-> FALSE, has |-> FALSE, code |-> 0],
                                    \* what inspect_exec reported for the
                                    \* primary command
            resizeDone |-> FALSE,   \* resize_exec returned Ok
            resizeFailed |-> FALSE, \* terminal_size or resize_exec failed
            drained |-> FALSE,      \* the exec stream being inspected ended
                                    \* with None
            cleanupFailed |-> FALSE,\* remove failed inside perform_all_enter
            copyRes |-> ""]         \* how copy_file ended: "ok", "err"

\* sessions whose pull stream reports no layer id
Init ==
    /\ args \in ArgsSet
    /\ layers = {}
    /\ Start

\* pulls of an image with layers, in a run with no optional step
InitPull ==
    /\ args = PlainArgs
    /\ layers = LayerIds
    /\ Start

\* runs with no provisioning step, the stdin-forwarding loop taking turns
InitStdin ==
    /\ args \in {PlainArgs, [PlainArgs EXCEPT !.sync_zsh_history = "Copy"]}
    /\ layers = {}
    /\ Start

\* ------------------------------------------------------------------ main
\* context.connect(), its error printed and otherwise ignored
Connect ==
    /\ pc = "connect"
    /\ \E ok \in BOOLEAN :
        /\ ctx' = [ctx EXCEPT !.docker = ok]
        /\ errors' = IF ok THEN errors ELSE Append(errors, [msg |-> "", kind |-> "Connection"])
    /\ pc' = "select"
    /\ UNCHANGED <<args, layers, m, bars, stdinLast, token, fut, ret, exitCode, spinner, rawMode, written,
                   stdinLoop, calls, createReq, engineCreated, h>>

\* mutant of DeleteFromMain: the call is issued without get_docker()
DeleteFromMainUnguarded(msg, printed) ==
    /\ calls' = Append(calls, Call("remove", "main"))
    /\ \E ok \in RemoveResults(ctx.container_id) :
         errors' = IF ok THEN printed
                   ELSE Append(printed, [msg |-> msg, kind |-> "ContainerDelete"])

\* context.delete_container() called from main, a failure printed under msg;
\* printed holds what main printed before the call
DeleteFromMain(msg, printed) ==
    IF ctx.docker
    THEN /\ calls' = Append(calls, Call("remove", "main"))
         /\ \E ok \in RemoveResults(ctx.container_id) :
              errors' = IF ok THEN printed
                        ELSE Append(printed, [msg |-> msg, kind |-> "ContainerDelete"])
    ELSE /\ calls' = calls
         /\ errors' = Append(printed, [msg |-> msg, kind |-> "NotConnected"])

\* mutant of SelectCancelled: the cancelled branch exits without
\* delete_container
SelectCancelledNoDelete ==
    /\ pc = "select"
    /\ ~token
    /\ token' = TRUE
    /\ rawMode' = FALSE
    /\ exitCode' = 0
    /\ pc' = "exited"
    /\ h' = [h EXCEPT !.cancelAt = fut.stage]
    /\ m' = DropAll(m, bars)
    /\ bars' = NoBars
    /\ UNCHANGED <<args, layers, stdinLast, ctx, fut, ret, spinner, written,
                   stdinLoop, calls, errors, createReq, engineCreated>>

\* the Ctrl-C task cancels the token and select! takes the cancelled branch:
\* the session future is dropped where it is, its locals with it.  (A Ctrl-C for which select!
\* takes the session branch, or after select!, is read by nobody.)
SelectCancelled ==
    /\ pc = "select"
    /\ ~token
    /\ token' = TRUE
    /\ DeleteFromMain("could not delete system after cancel", errors)
    /\ rawMode' = FALSE
    /\ exitCode' = 0
    /\ pc' = "exited"
    /\ h' = [h EXCEPT !.cancelAt = fut.stage]
    /\ m' = DropAll(m, bars)
    /\ bars' = NoBars
    /\ UNCHANGED <<args, layers, stdinLast, ctx, fut, ret, spinner, written,
                   stdinLoop, createReq, engineCreated>>

\* select!: perform_all_enter returned Err(e)
MatchErr ==
    /\ pc = "returned"
    /\ ret.tag = "err"
    /\ DeleteFromMain("could not delete system after error",
                      Append(Append(errors, [msg |-> "", kind |-> ret.kind]),
                             [msg |-> "", kind |-> "note"]))
    /\ exitCode' = 0
    /\ pc' = "exited"
    /\ UNCHANGED <<args, layers, m, bars, stdinLast, token, ctx, fut, ret, spinner, rawMode, written,
                   stdinLoop, createReq, engineCreated, h>>

\* select!: perform_all_enter returned Ok(code)
MatchOk ==
    /\ pc = "returned"
    /\ ret.tag = "ok"
    /\ exitCode' = AsU8(ret.code)
    /\ pc' = "exited"
    /\ UNCHANGED <<args, layers, m, bars, stdinLast, token, ctx, fut, ret, spinner, rawMode, written,
                   stdinLoop, calls, errors, createReq, engineCreated, h>>

\* ------------------------------------------------------------ pull_image
\* perform_all_enter up to the first await of pull_image
PullImageCall ==
    /\ Running("pull", "pull", FALSE)
    /\ spinner' = [message |-> "Downloading image", prefix |-> 1]
    /\ IF ctx.docker
       THEN /\ fut' = [fut EXCEPT !.total = Total(args), !.cur = 1, !.inflight = TRUE]
            /\ calls' = Append(calls, Call("pull", "pull"))
            /\ Stay
       ELSE /\ fut' = [fut EXCEPT !.total = Total(args), !.cur = 1]
            /\ calls' = calls
            /\ Fail(Err("NotConnected", 0))
    /\ UNCHANGED <<args, layers, m, bars, stdinLast, token, ctx, exitCode, written, stdinLoop,
                   errors, createReq, engineCreated, h>>

\* the stream yields Some(Ok(u)): one turn of the while loop
HandleUpdate(u) ==
    /\ Running("pull", "pull", TRUE)
    /\ fut.chunks < MaxPullEvents
    /\ fut' = [fut EXCEPT !.chunks = @ + 1]
    /\ LET s == Aggregate([m |-> m, bars |-> bars], u)
       IN  m' = s.m /\ bars' = s.bars
    /\ UNCHANGED <<args, layers, stdinLast, token, ctx, pc, ret, exitCode, spinner,
                   rawMode, written, stdinLoop, calls, errors, createReq,
                   engineCreated, h>>

PullEvent == \E u \in Updates(layers) : HandleUpdate(u)

\* the stream yields Some(Err(e)): `?` returns, bars is dropped as it is
PullError ==
    /\ Running("pull", "pull", TRUE)
    /\ Fail(Err("ImageCreate", 0))
    /\ h' = [h EXCEPT !.pullRes = "err"]
    /\ m' = DropAll(m, bars)
    /\ bars' = NoBars
    /\ UNCHANGED <<args, layers, stdinLast, token, ctx, fut, exitCode, spinner,
                   written, stdinLoop, calls, errors, createReq, engineCreated>>

\* the stream yields None: the entries left in bars are finished and
\* cleared, pull_image returns Ok, cur += 1
PullEnd ==
    /\ Running("pull", "pull", TRUE)
    /\ fut' = Goto([fut EXCEPT !.cur = @ + 1], "create")
    /\ h' = [h EXCEPT !.pullRes = "ok"]
    /\ m' = FinishAll(m, bars)
    /\ bars' = NoBars
    /\ UNCHANGED <<args, layers, stdinLast, token, ctx, pc, ret, exitCode, spinner,
                   rawMode, written, stdinLoop, calls, errors, createReq,
                   engineCreated>>

\* ------------------------------------------------------- create_container
\* "Creating system", cur += 1, the binds, then the request
CreateContainerCall ==
    /\ Running("create", "create_container", FALSE)
    /\ spinner' = [message |-> "Creating system", prefix |-> fut.cur]
    /\ \E local \in {"ok", "GetCWD"} \cup
                    (IF args.sync_zsh_history = "Mount" THEN {"HomeDir"} ELSE {}) :
         IF ~ctx.docker
         THEN /\ fut' = [fut EXCEPT !.cur = @ + 1]
              /\ Fail(Err("NotConnected", 0))
              /\ UNCHANGED <<calls, createReq>>
         ELSE IF local # "ok"
         THEN /\ fut' = [fut EXCEPT !.cur = @ + 1]
              /\ Fail(Err(local, 0))
              /\ UNCHANGED <<calls, createReq>>
         ELSE /\ fut' = [fut EXCEPT !.cur = @ + 1, !.inflight = TRUE]
              /\ calls' = Append(calls, Call("create", "create"))
              /\ createReq' = "sent"
              /\ Stay
    /\ UNCHANGED <<args, layers, m, bars, stdinLast, token, ctx, exitCode, written, stdinLoop,
                   errors, engineCreated, h>>

\* the engine handles the create request it received
EngineCreate ==
    /\ createReq = "sent"
    /\ pc # "exited"
    /\ \E ok \in BOOLEAN :
         /\ createReq' = IF ok THEN "created" ELSE "failed"
         /\ engineCreated' = IF ok THEN engineCreated \cup {CID} ELSE engineCreated
    /\ UNCHANGED <<args, layers, m, bars, stdinLast, token, ctx, pc, fut, ret, exitCode, spinner, rawMode, written,
                   stdinLoop, calls, errors, h>>

\* the response arrives: self.container_id = id
CreateContainerReturn ==
    /\ Running("create", "create_container", TRUE)
    /\ createReq \in {"created", "failed"}
    /\ IF createReq = "created"
       THEN /\ ctx' = [ctx EXCEPT !.container_id = CID]
            /\ fut' = Goto(fut, "start")
            /\ Stay
       ELSE /\ ctx' = ctx
            /\ fut' = fut
            /\ Fail(Err("ContainerCreate", 0))
    /\ UNCHANGED <<args, layers, m, bars, stdinLast, token, exitCode, spinner, written, stdinLoop,
                   calls, errors, createReq, engineCreated, h>>

\* -------------------------------------------------------- start_container
StartContainerCall ==
    /\ Running("start", "start_container", FALSE)
    /\ spinner' = [message |-> "Starting system", prefix |-> fut.cur]
    /\ IF ctx.docker
       THEN /\ fut' = [fut EXCEPT !.inflight = TRUE]
            /\ calls' = Append(calls, Call("start", "start"))
            /\ Stay
       ELSE /\ fut' = fut
            /\ calls' = calls
            /\ Fail(Err("NotConnected", 0))
    /\ UNCHANGED <<args, layers, m, bars, stdinLast, token, ctx, exitCode, written, stdinLoop,
                   errors, createReq, engineCreated, h>>

\* mutant of StartContainerReturn: the result of start_container is dropped
StartContainerReturnIgnoresError ==
    /\ Running("start", "start_container", TRUE)
    /\ \E ok \in BOOLEAN :
         /\ h' = [h EXCEPT !.startRes = IF ok THEN "ok" ELSE "err"]
         /\ fut' = Goto([fut EXCEPT !.cur = @ + 1], NextStage("start"))
         /\ Stay
    /\ UNCHANGED <<args, layers, m, bars, stdinLast, token, ctx, exitCode, spinner, written, stdinLoop,
                   calls, errors, createReq, engineCreated>>

StartContainerReturn ==
    /\ Running("start", "start_container", TRUE)
    /\ \E ok \in BOOLEAN :
         /\ h' = [h EXCEPT !.startRes = IF ok THEN "ok" ELSE "err"]
         /\ IF ok
            THEN /\ fut' = Goto([fut EXCEPT !.cur = @ + 1], NextStage("start"))
                 /\ Stay
            ELSE /\ fut' = fut
                 /\ Fail(Err("ContainerStart", 0))
    /\ UNCHANGED <<args, layers, m, bars, stdinLast, token, ctx, exitCode, spinner, written, stdinLoop,
                   calls, errors, createReq, engineCreated>>

\* ------------------------------------------------- create_exec, start_exec
\* the step announces itself (not the install after a search, and not the
\* primary command after the history copy, which announced "Executing")
Announces(f) ==
    /\ ~(f.stage \in PkgStages /\ f.phase = "install")
    /\ ~(f.stage = "primary" /\ args.sync_zsh_history = "Copy")

CreateExecCall ==
    /\ pc = "select"
    /\ fut.stage \in ExecStages
    /\ fut.sub = "create_exec"
    /\ ~fut.inflight
    /\ spinner' = IF Announces(fut)
                  THEN [message |-> Message(fut.stage), prefix |-> Prefix(fut)]
                  ELSE spinner
    /\ IF ctx.docker
       THEN /\ fut' = [fut EXCEPT !.inflight = TRUE]
            /\ calls' = Append(calls, Call("create_exec", fut.stage))
            /\ Stay
       ELSE /\ fut' = fut
            /\ calls' = calls
            /\ Fail(Err("NotConnected", 0))
    /\ UNCHANGED <<args, layers, m, bars, stdinLast, token, ctx, exitCode, written, stdinLoop,
                   errors, createReq, engineCreated, h>>

CreateExecReturn ==
    /\ pc = "select"
    /\ fut.stage \in ExecStages
    /\ fut.sub = "create_exec"
    /\ fut.inflight
    /\ \E ok \in BOOLEAN :
         IF ok
         THEN /\ fut' = [fut EXCEPT !.sub = "start_exec", !.inflight = FALSE]
              /\ Stay
         ELSE /\ fut' = fut
              /\ Fail(Err("ExecCreate", 0))
    /\ UNCHANGED <<args, layers, m, bars, stdinLast, token, ctx, exitCode, spinner, written, stdinLoop,
                   calls, errors, createReq, engineCreated, h>>

StartExecCall ==
    /\ pc = "select"
    /\ fut.stage \in ExecStages
    /\ fut.sub = "start_exec"
    /\ ~fut.inflight
    /\ IF ctx.docker
       THEN /\ fut' = [fut EXCEPT !.inflight = TRUE]
            /\ calls' = Append(calls, Call("start_exec", fut.stage))
            /\ Stay
       ELSE /\ fut' = fut
            /\ calls' = calls
            /\ Fail(Err("NotConnected", 0))
    /\ UNCHANGED <<args, layers, m, bars, stdinLast, token, ctx, exitCode, spinner, written, stdinLoop,
                   errors, createReq, engineCreated, h>>

\* the engine answers Attached {output, input}, something else, or an error;
\* the attached form (the primary command) spawns the stdin-forwarding task
StartExecReturn ==
    /\ pc = "select"
    /\ fut.stage \in ExecStages
    /\ fut.sub = "start_exec"
    /\ fut.inflight
    /\ \E r \in {"attached", "detached", "err"} :
         IF r = "attached"
         THEN /\ fut' = [fut EXCEPT !.inflight = FALSE, !.chunks = 0,
                           !.sub = IF fut.stage = "primary" THEN "resize" ELSE "stream"]
              /\ stdinLoop' = IF fut.stage = "primary" THEN "running" ELSE stdinLoop
              /\ Stay
         ELSE /\ fut' = fut
              /\ stdinLoop' = stdinLoop
              /\ Fail(Err(IF r = "err" THEN "ExecStart" ELSE "ExpectedAttached", 0))
    /\ UNCHANGED <<args, layers, m, bars, stdinLast, token, ctx, exitCode, spinner, written,
                   calls, errors, createReq, engineCreated, h>>

\* terminal_size(), then the resize request
ResizeExecCall ==
    /\ Running("primary", "resize", FALSE)
    /\ \E sizeOk \in BOOLEAN :
         IF sizeOk
         THEN /\ fut' = [fut EXCEPT !.inflight = TRUE]
              /\ calls' = Append(calls, Call("resize_exec", fut.stage))
              /\ h' = h
              /\ Stay
         ELSE /\ fut' = fut
              /\ calls' = calls
              /\ h' = [h EXCEPT !.resizeFailed = TRUE]
              /\ Fail(Err("TerminalSize", 0))
    /\ UNCHANGED <<args, layers, m, bars, stdinLast, token, ctx, exitCode, spinner, written, stdinLoop,
                   errors, createReq, engineCreated>>

\* mutant of ResizeExecReturn: the result of resize_exec is dropped
ResizeExecReturnIgnoresError ==
    /\ Running("primary", "resize", TRUE)
    /\ \E ok \in BOOLEAN, rawOk \in BOOLEAN :
         IF ~rawOk
         THEN /\ fut' = fut
              /\ h' = IF ok THEN [h EXCEPT !.resizeDone = TRUE]
                            ELSE [h EXCEPT !.resizeFailed = TRUE]
              /\ Fail(Err("Rawmode", 0))
         ELSE /\ fut' = [fut EXCEPT !.sub = "stream", !.inflight = FALSE]
              /\ h' = IF ok THEN [h EXCEPT !.resizeDone = TRUE]
                            ELSE [h EXCEPT !.resizeFailed = TRUE]
              /\ rawMode' = TRUE
              /\ UNCHANGED <<ret, pc>>
    /\ UNCHANGED <<args, layers, m, bars, stdinLast, token, ctx, exitCode, spinner, written, stdinLoop,
                   calls, errors, createReq, engineCreated>>

\* the resize returned; on Ok stdout goes into raw mode and streaming begins
ResizeExecReturn ==
    /\ Running("primary", "resize", TRUE)
    /\ \E ok \in BOOLEAN, rawOk \in BOOLEAN :
         IF ~ok
         THEN /\ fut' = fut
              /\ h' = [h EXCEPT !.resizeFailed = TRUE]
              /\ Fail(Err("ExecResize", 0))
         ELSE IF ~rawOk
         THEN /\ fut' = fut
              /\ h' = [h EXCEPT !.resizeDone = TRUE]
              /\ Fail(Err("Rawmode", 0))
         ELSE /\ fut' = [fut EXCEPT !.sub = "stream", !.inflight = FALSE]
              /\ h' = [h EXCEPT !.resizeDone = TRUE]
              /\ rawMode' = TRUE
              /\ UNCHANGED <<ret, pc>>
    /\ UNCHANGED <<args, layers, m, bars, stdinLast, token, ctx, exitCode, spinner, written, stdinLoop,
                   calls, errors, createReq, engineCreated>>

\* output.next() yields Some(Ok(chunk)): written and flushed to raw stdout
\* (attached) or appended to the String buffer (batched)
StreamChunk ==
    /\ pc = "select"
    /\ fut.stage \in ExecStages
    /\ fut.sub = "stream"
    /\ fut.chunks < MaxChunks
    /\ fut' = [fut EXCEPT !.chunks = @ + 1]
    /\ IF fut.stage = "primary"
       THEN \E w \in {"ok", "StdoutWrite", "StdoutFlush"} :
              /\ written' = IF w = "StdoutWrite" THEN written ELSE written + 1
              /\ IF w = "ok" THEN Stay ELSE Fail(Err(w, 0))
       ELSE /\ written' = written
            /\ Stay
    /\ UNCHANGED <<args, layers, m, bars, stdinLast, token, ctx, exitCode, spinner, stdinLoop,
                   calls, errors, createReq, engineCreated, h>>

\* mutant of StreamStop: the raw-mode guard outlives the streaming loop
StreamStopKeepsRaw ==
    /\ pc = "select"
    /\ fut.stage \in ExecStages
    /\ fut.sub = "stream"
    /\ \E item \in {"end", "error"} :
         h' = [h EXCEPT !.drained = (item = "end")]
    /\ fut' = [fut EXCEPT !.sub = "inspect", !.inflight = FALSE, !.chunks = 0]
    /\ UNCHANGED <<args, layers, m, bars, stdinLast, token, ctx, pc, ret, exitCode, spinner, rawMode,
                   written, stdinLoop, calls, errors, createReq, engineCreated>>

\* output.next() yields None or Some(Err(_)): `while let Some(Ok(..))` ends,
\* the raw-mode guard goes out of scope
StreamStop ==
    /\ pc = "select"
    /\ fut.stage \in ExecStages
    /\ fut.sub = "stream"
    /\ \E item \in {"end", "error"} :
         h' = [h EXCEPT !.drained = (item = "end")]
    /\ fut' = [fut EXCEPT !.sub = "inspect", !.inflight = FALSE, !.chunks = 0]
    /\ rawMode' = FALSE
    /\ UNCHANGED <<args, layers, m, bars, stdinLast, token, ctx, pc, ret, exitCode, spinner, written, stdinLoop, calls, errors, createReq, engineCreated>>

InspectExecCall ==
    /\ pc = "select"
    /\ fut.stage \in ExecStages
    /\ fut.sub = "inspect"
    /\ ~fut.inflight
    /\ fut' = [fut EXCEPT !.inflight = TRUE]
    /\ calls' = Append(calls, Call("inspect_exec", fut.stage))
    /\ UNCHANGED <<args, layers, m, bars, stdinLast, token, ctx, pc, ret, exitCode, spinner, rawMode, written,
                   stdinLoop, errors, createReq, engineCreated, h>>

\* the driver after a provisioning exec returned status 0
AfterProvStep(f) ==
    IF f.stage \in PkgStages /\ f.phase = "search"
    THEN [f EXCEPT !.phase = "install", !.sub = "create_exec", !.inflight = FALSE,
                   !.chunks = 0]
    ELSE IF f.stage \in PkgStages /\ f.i < PkgCount(f.stage)
    THEN [f EXCEPT !.i = @ + 1, !.phase = "search", !.sub = "create_exec",
                   !.inflight = FALSE, !.chunks = 0]
    ELSE IF f.stage \in PkgStages
    THEN Goto([f EXCEPT !.cur = @ + PkgCount(f.stage)], NextStage(f.stage))
    ELSE Goto([f EXCEPT !.cur = @ + 1], NextStage(f.stage))

\* start_exec returns (exit_code.unwrap_or(0), output) to the step
InspectExecReturn ==
    /\ pc = "select"
    /\ fut.stage \in ExecStages
    /\ fut.sub = "inspect"
    /\ fut.inflight
    /\ \E ok \in BOOLEAN, has \in BOOLEAN, code \in ExitCodes :
         LET status == UnwrapOr0(has, code) IN
         /\ h' = IF ~ok THEN h
                 ELSE IF fut.stage = "primary"
                 THEN [h EXCEPT !.reported = [seen |-> TRUE, has |-> has,
                                              code |-> IF has THEN code ELSE 0]]
                 ELSE IF has /\ code # 0 /\ h.provFailAt = 0
                 THEN [h EXCEPT !.provFailAt = Len(calls)]
                 ELSE [h EXCEPT !.drained = FALSE]
         /\ IF ~ok
            THEN /\ fut' = fut
                 /\ Fail(Err("ExecInspect", 0))
                 /\ spinner' = spinner
            ELSE IF fut.stage = "primary"
            THEN /\ fut' = Goto([fut EXCEPT !.exit_code = status], "delete")
                 /\ spinner' = [message |-> "Deleting system", prefix |-> fut.total]
                 /\ Stay
            ELSE IF StepFails(status)
            THEN /\ fut' = fut
                 /\ Fail(ProvError(fut.stage, fut.phase, fut.i, status))
                 /\ spinner' = spinner
            ELSE /\ fut' = AfterProvStep(fut)
                 /\ Stay
                 /\ spinner' = spinner
    /\ UNCHANGED <<args, layers, m, bars, stdinLast, token, ctx, exitCode, written, stdinLoop,
                   calls, errors, createReq, engineCreated>>

\* ------------------------------------------------------------- copy_file
\* "Executing", the home directory, the archive, then the upload request
CopyFileCall ==
    /\ Running("primary", "copy", FALSE)
    /\ spinner' = [message |-> "Executing", prefix |-> fut.cur]
    /\ \E local \in {"ok", "HomeDir", "OpenHistory", "Tar"} :
         IF local # "ok"
         THEN /\ fut' = fut
              /\ calls' = calls
              /\ h' = [h EXCEPT !.copyRes = "err"]
              /\ Fail(Err(local, 0))
         ELSE IF ~ctx.docker
         THEN /\ fut' = fut
              /\ calls' = calls
              /\ h' = [h EXCEPT !.copyRes = "err"]
              /\ Fail(Err("NotConnected", 0))
         ELSE /\ fut' = [fut EXCEPT !.inflight = TRUE]
              /\ calls' = Append(calls, Call("upload", fut.stage))
              /\ h' = h
              /\ Stay
    /\ UNCHANGED <<args, layers, m, bars, stdinLast, token, ctx, exitCode, written, stdinLoop,
                   errors, createReq, engineCreated>>

\* mutant of CopyFileReturn: the result of upload_to_container is dropped
CopyFileReturnIgnoresError ==
    /\ Running("primary", "copy", TRUE)
    /\ \E ok \in BOOLEAN :
         /\ h' = [h EXCEPT !.copyRes = IF ok THEN "ok" ELSE "err"]
         /\ fut' = [fut EXCEPT !.sub = "create_exec", !.inflight = FALSE]
         /\ Stay
    /\ UNCHANGED <<args, layers, m, bars, stdinLast, token, ctx, exitCode, spinner, written, stdinLoop,
                   calls, errors, createReq, engineCreated>>

\* the upload returned: Ok goes on to create_exec, Err is ContainerUpload
CopyFileReturn ==
    /\ Running("primary", "copy", TRUE)
    /\ \E ok \in BOOLEAN :
         /\ h' = [h EXCEPT !.copyRes = IF ok THEN "ok" ELSE "err"]
         /\ IF ok
            THEN /\ fut' = [fut EXCEPT !.sub = "create_exec", !.inflight = FALSE]
                 /\ Stay
            ELSE /\ fut' = fut
                 /\ Fail(Err("ContainerUpload", 0))
    /\ UNCHANGED <<args, layers, m, bars, stdinLast, token, ctx, exitCode, spinner, written, stdinLoop,
                   calls, errors, createReq, engineCreated>>

\* ------------------------------------- "Deleting system" in perform_all_enter
\* tokio::time::sleep(250 ms) is over
SleepDone ==
    /\ Running("delete", "sleep", FALSE)
    /\ fut' = [fut EXCEPT !.sub = "remove"]
    /\ UNCHANGED <<args, layers, m, bars, stdinLast, token, ctx, pc, ret, exitCode, spinner, rawMode, written,
                   stdinLoop, calls, errors, createReq, engineCreated, h>>

DeleteContainerCall ==
    /\ Running("delete", "remove", FALSE)
    /\ IF ctx.docker
       THEN /\ fut' = [fut EXCEPT !.inflight = TRUE]
            /\ calls' = Append(calls, Call("remove", fut.stage))
            /\ Stay
       ELSE /\ fut' = fut
            /\ calls' = calls
            /\ Fail(Err("NotConnected", 0))
    /\ UNCHANGED <<args, layers, m, bars, stdinLast, token, ctx, exitCode, spinner, written, stdinLoop,
                   errors, createReq, engineCreated, h>>

\* self.delete_container().await?; then return Ok(exit_code)
DeleteContainerReturn ==
    /\ Running("delete", "remove", TRUE)
    /\ \E ok \in RemoveResults(ctx.container_id) :
         IF ok
         THEN /\ ret' = Ok(fut.exit_code)
              /\ pc' = "returned"
              /\ h' = h
              /\ UNCHANGED rawMode
         ELSE /\ Fail(Err("ContainerDelete", 0))
              /\ h' = [h EXCEPT !.cleanupFailed = TRUE]
    /\ UNCHANGED <<args, layers, m, bars, stdinLast, token, ctx, fut, exitCode, spinner, written, stdinLoop, calls, errors, createReq, engineCreated>>

Next ==
    \/ Connect
    \/ SelectCancelled
    \/ MatchErr
    \/ MatchOk
    \/ PullImageCall
    \/ PullEvent
    \/ PullError
    \/ PullEnd
    \/ CreateContainerCall
    \/ EngineCreate
    \/ CreateContainerReturn
    \/ StartContainerCall
    \/ StartContainerReturn
    \/ CreateExecCall
    \/ CreateExecReturn
    \/ StartExecCall
    \/ StartExecReturn
    \/ ResizeExecCall
    \/ ResizeExecReturn
    \/ StreamChunk
    \/ StreamStop
    \/ InspectExecCall
    \/ InspectExecReturn
    \/ CopyFileCall
    \/ CopyFileReturn
    \/ SleepDone
    \/ DeleteContainerCall
    \/ DeleteContainerReturn

Spec == Init /\ [][Next]_vars

\* ------------------------------------------- the stdin-forwarding task
\* what one turn of the loop meets: stdin.next() gives None, Some(Err(_)),
\* or Some(Ok(byte)) followed by input.write_all returning Ok or Err
StdinTurns == {"no_byte", "read_err", "write_ok", "write_err"}

\* mutant of StdinPoll: the loop also ends when the local read fails
StdinPollStopsOnReadError ==
    /\ stdinLoop = "running"
    /\ pc # "exited"
    /\ \E r \in StdinTurns :
         /\ stdinLast' = r
         /\ stdinLoop' = IF r \in {"write_err", "read_err"} THEN "stopped" ELSE "running"
         /\ errors' = IF r = "write_err"
                      THEN Append(errors, [msg |-> "failed to write to exec's stdin",
                                           kind |-> "io"])
                      ELSE errors
    /\ UNCHANGED <<args, layers, m, bars, token, ctx, pc, fut, ret, exitCode,
                   spinner, rawMode, written, calls, createReq, engineCreated, h>>

\* one turn of the loop of the spawned task: break on a failed write, else
\* sleep 10 ns and go round again; the task runs until the runtime is gone
StdinPoll ==
    /\ stdinLoop = "running"
    /\ pc # "exited"
    /\ \E r \in StdinTurns :
         /\ stdinLast' = r
         /\ stdinLoop' = IF r = "write_err" THEN "stopped" ELSE "running"
         /\ errors' = IF r = "write_err"
                      THEN Append(errors, [msg |-> "failed to write to exec's stdin",
                                           kind |-> "io"])
                      ELSE errors
    /\ UNCHANGED <<args, layers, m, bars, token, ctx, pc, fut, ret, exitCode,
                   spinner, rawMode, written, calls, createReq, engineCreated, h>>

\* the sessions of InitStdin with the stdin-forwarding task taking turns
NextStdin ==
    \/ Next
    \/ StdinPoll

SpecStdin == InitStdin /\ [][NextStdin]_vars

\* ------------------------------------------------ the pull, layer by layer
\* main and the driver up to the return of pull_image
NextPull ==
    \/ Connect
    \/ SelectCancelled
    \/ MatchErr
    \/ PullImageCall
    \/ PullEvent
    \/ PullError
    \/ PullEnd

SpecPull == InitPull /\ [][NextPull]_vars

\* =============================================================== properties
\* positions in calls of the engine calls of one operation
Ops(op) == {i \in 1..Len(calls) : calls[i].op = op}

\* positions of the remove-container calls aimed at container c
RemovesOf(c) == {i \in Ops("remove") : calls[i].target = c}

\* create_container returned Ok and its id was recorded
Created == ctx.container_id = CID

\* the place of an engine call in the order of the session
CallRank(c) ==
    CASE c.op = "pull"   -> Rank("pull")
      [] c.op = "create" -> Rank("create")
      [] c.op = "start"  -> Rank("start")
      [] c.op = "remove" -> Rank("delete")
      [] OTHER           -> Rank(c.by)

\* the place of an exec call within its exec, and of an exec within its step
OpRank(c) ==
    CASE c.op = "upload"       -> 0
      [] c.op = "create_exec"  -> 1
      [] c.op = "start_exec"   -> 2
      [] c.op = "resize_exec"  -> 3
      [] c.op = "inspect_exec" -> 4
      [] OTHER                 -> 5
PhaseRank(c) == IF c.phase = "install" THEN 1 ELSE 0

\* call a is issued no later in the session's order than call b
InOrder(a, b) ==
    \/ CallRank(a) < CallRank(b)
    \/ /\ CallRank(a) = CallRank(b)
       /\ \/ a.idx < b.idx
          \/ a.idx = b.idx /\ PhaseRank(a) < PhaseRank(b)
          \/ a.idx = b.idx /\ PhaseRank(a) = PhaseRank(b) /\ OpRank(a) <= OpRank(b)

\* C1 (as claimed): when the process has exited and create-container had
\* succeeded, exactly one remove-container call was issued for the container.
C1_ExactlyOneRemove ==
    (pc = "exited" /\ Created) => Cardinality(RemovesOf(CID)) = 1

\* C2 (as claimed): as long as no create-container call has succeeded, no
\* remove-container call is issued at all.
C2_NoRemoveWithoutCreate ==
    ~Created => Ops("remove") = {}

\* C3 (as claimed): when the process has exited, every container the engine
\* created has been the target of a remove-container call.
C3_NoLeak ==
    pc = "exited" => \A c \in engineCreated : RemovesOf(c) # {}

\* C4: if the cancelled branch wins while the driver is in the start step
\* (the handle is recorded, start_container has not returned), remove is
\* called once, with the recorded handle, perform_all_enter has produced no
\* outcome, no session error is printed and the exit code is 0.
C4_CancelBeforeStart ==
    (pc = "exited" /\ h.cancelAt = "start") =>
        /\ Created
        /\ Ops("remove") = {Len(calls)}
        /\ calls[Len(calls)].target = CID
        /\ ret = NoRet
        /\ \A i \in 1..Len(errors) :
             errors[i].msg = "could not delete system after cancel"
        /\ exitCode = 0

C4_Witness ==
    /\ pc = "exited"
    /\ h.cancelAt = "start"
    /\ fut.inflight
    /\ RemovesOf(CID) # {}

\* C5 (as claimed): when remove-container fails after the primary command
\* finished with a code c in 1..255, the session outcome is still Ok(c) and
\* the process exit code is c.
C5_CleanupKeepsOutcome ==
    (pc = "exited" /\ h.cleanupFailed /\ h.reported.code \in 1..(U8 - 1)) =>
        /\ ret.tag = "ok"
        /\ exitCode = h.reported.code

\* C6 (as claimed): a session that ended in failure exits non-zero.
C6_FailureExitsNonZero ==
    (pc = "exited" /\ ret.tag = "err") => exitCode # 0

\* C7 (as claimed): on the success path the exit code is the exit code
\* inspect_exec reported for the primary command (missing counts as 0).
C7_ExitCodeEqualsReported ==
    (pc = "exited" /\ ret.tag = "ok") => exitCode = h.reported.code

\* C7 (amended): on the success path the exit code is the reported code
\* reduced modulo 256, hence the reported code itself when it is in 0..255.
C7_ExitCodeIsReportedMod256 ==
    (pc = "exited" /\ ret.tag = "ok") =>
        /\ h.reported.seen
        /\ exitCode \in 0..(U8 - 1)
        /\ (exitCode - h.reported.code) % U8 = 0
        /\ (~h.reported.has => exitCode = 0)

C7_Witness ==
    /\ pc = "exited"
    /\ ret.tag = "ok"
    /\ h.reported.has
    /\ h.reported.code = U8
    /\ exitCode = 0

\* C8: once a provisioning exec has reported a non-zero exit code, no exec
\* is created or started any more (the only later engine calls are
\* remove-container calls) and the outcome of the session is a failure.
C8_NonZeroProvisioningAborts ==
    h.provFailAt > 0 =>
        /\ \A i \in (h.provFailAt + 1)..Len(calls) : calls[i].op = "remove"
        /\ Ops("create_exec") \subseteq 1..h.provFailAt
        /\ Ops("start_exec") \subseteq 1..h.provFailAt
        /\ \A i \in 1..Len(calls) : calls[i].by # "primary"
        /\ ret.tag = "err"
        /\ pc \in {"returned", "exited"}

C8_Witness ==
    /\ pc = "exited"
    /\ h.provFailAt > 0
    /\ args.extra_packages = MaxPkgs
    /\ args.extra_aur_packages > 0
    /\ calls[h.provFailAt].by = "pkgs"
    /\ calls[h.provFailAt].idx = 1
    /\ calls[h.provFailAt].phase = "install"
    /\ ret.kind = "PackageInstall"

\* C9: every engine call is issued in the order pull, create, start, the
\* enabled provisioning steps in their fixed order (packages one by one,
\* search before install), the primary command, remove: a call never comes
\* before the call issued last, and pull, create and start are issued once.
\* create is issued only after the pull stream ended without error, start
\* only after create succeeded (and with its handle), an exec call only
\* after start succeeded.
C9_StagesInOrder ==
    [][calls' # calls =>
        LET c == calls'[Len(calls')] IN
        /\ calls' = Append(calls, c)
        /\ calls # <<>> =>
             /\ InOrder(calls[Len(calls)], c)
             /\ c.op \in {"pull", "create", "start"} => calls[Len(calls)].op # c.op
        /\ c.op = "create" => h.pullRes = "ok"
        /\ c.op = "start" => (createReq = "created" /\ c.target = CID)
        /\ c.by \in ExecStages =>
             /\ StageEnabled(c.by)
             /\ h.startRes = "ok"
             /\ c.target = CID
    ]_vars

C9_Witness ==
    /\ pc = "exited"
    /\ ret.tag = "ok"
    /\ args.chaotic_aur /\ args.landware /\ args.update_system /\ args.update_pkgfile
    /\ args.extra_packages = MaxPkgs
    /\ args.extra_aur_packages = MaxPkgs
    /\ args.sync_zsh_history = "Copy"
    /\ Ops("upload") # {}

\* C10: an output chunk of the attached exec is read, and written to local
\* stdout, only after resize_exec returned Ok; when the terminal-size query
\* or the resize fails nothing is ever written.
C10_ResizeBeforeOutput ==
    /\ (fut.stage = "primary" /\ fut.chunks > 0) => h.resizeDone
    /\ written > 0 => (h.resizeDone /\ Ops("resize_exec") # {})
    /\ h.resizeFailed => (written = 0 /\ ~h.resizeDone)

C10_Witness ==
    /\ written > 0
    /\ h.resizeDone
    /\ fut.stage = "primary"
    /\ fut.sub = "stream"

\* C11 (as claimed): once pull_image has returned, with Ok or with the
\* stream's error, every indicator that was kept for a layer has been
\* finished and cleared.
C11_NoIndicatorLeftOpen ==
    h.pullRes # "" =>
        \A i \in 1..Len(m) : m[i].tracked => m[i].state = "cleared"

\* C12: the turn of the loop for an event whose id is absent or "latest"
\* leaves the map of indicators and every indicator as they were, whatever
\* progress and status the event carries.
C12_UntrackedChangesNothing ==
    [][\A u \in Updates(layers) :
         ((~u.hasId \/ u.id = "latest") /\ HandleUpdate(u)) =>
             (m' = m /\ bars' = bars)
    ]_vars

C12_Witness ==
    /\ layers = LayerIds
    /\ fut.stage = "pull"
    /\ fut.chunks = 2
    /\ m = <<>>

C14_ProbeBeforeInstall ==
    /\ LET n == Len(calls) IN
       (n > 0 /\ calls[n].op = "create_exec" /\ calls[n].phase = "install") =>
            /\ n > 1
            /\ calls[n - 1].op = "inspect_exec"
            /\ calls[n - 1].phase = "search"
            /\ calls[n - 1].by = calls[n].by
            /\ calls[n - 1].idx = calls[n].idx
    /\ (h.provFailAt > 0 /\ calls[h.provFailAt].phase = "search") =>
            LET c == calls[h.provFailAt] IN
            /\ ret = ErrPkg("PackageDNE", 0, c.idx)
            /\ ret.kind # "PackageInstall"
            /\ \A i \in 1..Len(calls) :
                 ~(calls[i].by = c.by /\ calls[i].idx = c.idx
                   /\ calls[i].phase = "install")

C14_Witness ==
    /\ pc = "exited"
    /\ h.provFailAt > 0
    /\ calls[h.provFailAt].by = "aur"
    /\ calls[h.provFailAt].phase = "search"
    /\ calls[h.provFailAt].idx = 2
    /\ ret = ErrPkg("PackageDNE", 0, 2)

\* C15 (as claimed): while an inspect_exec call is in flight, the output
\* stream of that exec has reported its end.
C15_InspectAfterDrained ==
    (fut.sub = "inspect" /\ fut.inflight) => h.drained

\* the engine operation whose failure an Error kind reports
FailedOp ==
    [k \in {"ImageCreate", "ContainerCreate", "ContainerStart", "ExecCreate",
            "ExecStart", "ExecResize", "ExecInspect", "ContainerUpload",
            "ContainerDelete"} |->
        CASE k = "ImageCreate"     -> "pull"
          [] k = "ContainerCreate" -> "create"
          [] k = "ContainerStart"  -> "start"
          [] k = "ExecCreate"      -> "create_exec"
          [] k = "ExecStart"       -> "start_exec"
          [] k = "ExecResize"      -> "resize_exec"
          [] k = "ExecInspect"     -> "inspect_exec"
          [] k = "ContainerUpload" -> "upload"
          [] OTHER                 -> "remove"]

\* C16 (as claimed): when the session failed because an engine call
\* returned an error, that operation is not issued again afterwards, that
\* is by main, whichever operation it was.
C16_NoRetry ==
    (ret.tag = "err" /\ ret.kind \in DOMAIN FailedOp) =>
        \A i \in 1..Len(calls) :
            calls[i].by = "main" => calls[i].op # FailedOp[ret.kind]

\* C17: once connect has been tried the connection never changes; when it
\* failed no engine call is ever issued, the driver never gets past the
\* pull, the session's outcome can only be the NotConnected error, and the
\* remove main then attempts fails with NotConnected as well.
C17_NotConnectedFailsFast ==
    [][/\ pc # "connect" => ctx'.docker = ctx.docker
       /\ (pc' # "connect" /\ ~ctx'.docker) =>
            /\ calls' = <<>>
            /\ fut'.stage = "pull"
            /\ ret'.tag # "ok"
            /\ ret'.tag = "err" => ret' = Err("NotConnected", 0)
            /\ pc' = "exited" =>
                 /\ errors'[Len(errors')].kind = "NotConnected"
                 /\ errors'[Len(errors')].msg \in
                        {"could not delete system after cancel",
                         "could not delete system after error"}
    ]_vars

C17_Witness ==
    /\ pc = "exited"
    /\ ~ctx.docker
    /\ ret = Err("NotConnected", 0)
    /\ calls = <<>>
    /\ errors[Len(errors)] =
         [msg |-> "could not delete system after error", kind |-> "NotConnected"]

\* C18: with the history synchronised by copy, a call for the primary
\* command's exec is issued only after the upload returned Ok; when
\* building or uploading the archive failed the session's outcome is an
\* error, no exec call of the primary command is ever issued, and the last
\* engine call of the process is main's remove of the container.
C18_UploadBeforePrimary ==
    /\ LET n == Len(calls) IN
       (/\ args.sync_zsh_history = "Copy"
        /\ n > 0
        /\ calls[n].by = "primary"
        /\ calls[n].op # "upload") =>
            (h.copyRes = "ok" /\ Ops("upload") # {})
    /\ h.copyRes = "err" =>
            /\ ret.tag = "err"
            /\ pc \in {"returned", "exited"}
            /\ \A i \in 1..Len(calls) :
                 calls[i].by = "primary" => calls[i].op = "upload"
            /\ pc = "exited" =>
                 /\ calls[Len(calls)].op = "remove"
                 /\ calls[Len(calls)].by = "main"
                 /\ calls[Len(calls)].target = CID

C18_Witness ==
    /\ pc = "exited"
    /\ h.copyRes = "err"
    /\ ret = Err("ContainerUpload", 0)
    /\ Ops("upload") # {}
    /\ calls[Len(calls)].op = "remove"

\* C19: the stdin-forwarding loop has ended exactly when its last turn met
\* a failed write to the exec's input; after a turn with no byte, a failed
\* local read or a successful write it is still running; and whatever the
\* loop does, the next step of the bridge (end of the output loop, the
\* inspect call, its return) can be taken.
C19_StdinLoopStopsOnWriteError ==
    /\ stdinLoop = "stopped" <=> stdinLast = "write_err"
    /\ stdinLast \in {"no_byte", "read_err", "write_ok"} => stdinLoop = "running"
    /\ stdinLoop = "none" => stdinLast = "none"
    /\ (pc = "select" /\ fut.stage = "primary" /\ stdinLoop \in {"running", "stopped"}) =>
            /\ fut.sub = "stream" => ENABLED StreamStop
            /\ (fut.sub = "inspect" /\ ~fut.inflight) => ENABLED InspectExecCall
            /\ (fut.sub = "inspect" /\ fut.inflight) => ENABLED InspectExecReturn

C19_Witness ==
    /\ pc = "exited"
    /\ ret.tag = "ok"
    /\ stdinLoop = "running"
    /\ stdinLast = "read_err"

\* C20: after every step, local stdout is in raw mode only while the driver
\* is in the output loop of the attached exec, resize_exec having returned
\* Ok (so not during inspection, Cleanup or at exit); and a chunk is
\* written to local stdout only in raw mode.
C20_RawOnlyWhileStreaming ==
    [][/\ rawMode' =>
            /\ pc' = "select"
            /\ fut'.stage = "primary"
            /\ fut'.sub = "stream"
            /\ h'.resizeDone
            /\ calls'[Len(calls')].op = "resize_exec"
       /\ written' # written => rawMode
    ]_vars

C20_Witness ==
    /\ pc = "exited"
    /\ h.cancelAt = "primary"
    /\ fut.sub = "stream"
    /\ written > 0
    /\ ~rawMode

\* bars of layer l that m.add registered with m and m.remove has not removed
RegisteredFor(l) == {i \in 1..Len(m) : m[i].layer = l /\ m[i].inMulti}

\* C21 (as claimed): at every point of a pull, at most one indicator per
\* layer id is registered with the progress display.
C21_OneIndicatorPerLayer ==
    Running("pull", "pull", TRUE) =>
        \A l \in layers : Cardinality(RegisteredFor(l)) <= 1

\* C22: whenever the spinner's message or prefix is set, the index shown is
\* at least 1 (1 the first time), not below the index shown before, at most
\* the total, which is BaseSteps plus the enabled optional steps plus the
\* words of the package lists; it is total - 1 with "Executing" and total
\* with "Deleting system".
C22_StepIndex ==
    [][spinner' # spinner =>
        /\ fut'.total = Total(args)
        /\ spinner'.prefix >= 1
        /\ spinner.prefix = 0 => spinner'.prefix = 1
        /\ spinner'.prefix >= spinner.prefix
        /\ spinner'.prefix <= fut'.total
        /\ spinner'.message = "Executing" => spinner'.prefix = fut'.total - 1
        /\ spinner'.message = "Deleting system" => spinner'.prefix = fut'.total
    ]_vars

C22_Witness ==
    /\ pc = "exited"
    /\ ret.tag = "ok"
    /\ args.chaotic_aur /\ args.landware /\ args.update_system /\ args.update_pkgfile
    /\ args.extra_packages = MaxPkgs
    /\ args.extra_aur_packages = MaxPkgs
    /\ spinner = [message |-> "Deleting system", prefix |-> BaseSteps + 4 + 2 * MaxPkgs]

====
